---- MODULE Spec2Model ----
(***************************************************************************)
(* Model of scenedetect/_cli/config.py: the typed option validators, the   *)
(* schema (CONFIG_MAP / CHOICE_MAP), the structural validator, the value   *)
(* parser and the ConfigRegistry (load at construction, accessors).        *)
(*                                                                         *)
(* Text is modelled as TLA+ strings handled character by character.        *)
(* Floating-point numbers are modelled in thousandths (1.5 is 1500): every *)
(* float of the schema and of the modelled files has at most three         *)
(* decimals, so comparisons are exact.                                     *)
(***************************************************************************)
EXTENDS Integers, Sequences, FiniteSets, TLC

(***************************************************************************)
(* Bounds of the model.                                                    *)
(***************************************************************************)
\* Longest modelled multi-line config file, in (section, option, value) lines.
MaxEntries == 2

(***************************************************************************)
(* Python str methods used by the module.                                  *)
(***************************************************************************)
LOWERCASE == "abcdefghijklmnopqrstuvwxyz"
UPPERCASE == "ABCDEFGHIJKLMNOPQRSTUVWXYZ"
DIGITS == "0123456789"

CharAt(s, i) == SubSeq(s, i, i)

RECURSIVE IndexFrom(_, _, _)
IndexFrom(c, s, i) ==
    IF i > Len(s) THEN 0
    ELSE IF CharAt(s, i) = c THEN i
    ELSE IndexFrom(c, s, i + 1)

\* Position of the one-character string c in s, 0 when absent.
IndexOf(c, s) == IndexFrom(c, s, 1)

IsSpace(c) == c \in {" ", "\t", "\n", "\r"}
IsDigit(c) == IndexOf(c, DIGITS) # 0

\* The character c, or the one at position i of to when i is not 0.
MapAt(c, i, to) == IF i = 0 THEN c ELSE CharAt(to, i)

\* The character of to at the position c has in from; c when it is not in from.
MapChar(c, from, to) == MapAt(c, IndexOf(c, from), to)

RECURSIVE MapChars(_, _, _)
\* s with every character of from replaced by the one at its position in to.
MapChars(s, from, to) ==
    IF Len(s) = 0 THEN ""
    ELSE MapChar(CharAt(s, 1), from, to) \o MapChars(Tail(s), from, to)

\* str.upper() and str.lower() (ASCII).
upper(s) == MapChars(s, LOWERCASE, UPPERCASE)
lower(s) == MapChars(s, UPPERCASE, LOWERCASE)

RECURSIVE replace(_, _, _)
\* str.replace(old, new) for a one-character old.
replace(s, old, new) ==
    IF Len(s) = 0 THEN ""
    ELSE (IF CharAt(s, 1) = old THEN new ELSE CharAt(s, 1))
            \o replace(Tail(s), old, new)

RECURSIVE lstrip(_)
lstrip(s) ==
    IF Len(s) > 0 /\ IsSpace(CharAt(s, 1)) THEN lstrip(Tail(s)) ELSE s

RECURSIVE rstrip(_)
rstrip(s) ==
    IF Len(s) > 0 /\ IsSpace(CharAt(s, Len(s))) THEN rstrip(SubSeq(s, 1, Len(s) - 1)) ELSE s

\* str.strip().
strip(s) == lstrip(rstrip(s))

RECURSIVE WordEnd(_, _)
\* Index of the last character of the word of s that starts at i.
WordEnd(s, i) ==
    IF i < Len(s) /\ ~IsSpace(CharAt(s, i + 1)) THEN WordEnd(s, i + 1) ELSE i

RECURSIVE split(_)
\* The word of t that ends at e, then the words of the rest.
WordsFrom(t, e) == <<SubSeq(t, 1, e)>> \o split(SubSeq(t, e + 1, Len(t)))

\* The words of t, which does not start with whitespace.
Words(t) == IF Len(t) = 0 THEN <<>> ELSE WordsFrom(t, WordEnd(t, 1))

\* str.split() with no argument: the whitespace-separated words of s.
split(s) == Words(lstrip(s))

RECURSIVE join(_, _)
\* sep.join(words).
join(sep, words) ==
    IF Len(words) = 0 THEN ""
    ELSE IF Len(words) = 1 THEN words[1]
    ELSE words[1] \o sep \o join(sep, Tail(words))

StartsWith(s, prefix) ==
    Len(s) >= Len(prefix) /\ SubSeq(s, 1, Len(prefix)) = prefix

Contains(seq, x) == \E i \in 1..Len(seq) : seq[i] = x

RECURSIVE AllDigits(_)
AllDigits(s) ==
    Len(s) = 0 \/ (IsDigit(CharAt(s, 1)) /\ AllDigits(Tail(s)))

RECURSIVE DigitsValue(_, _)
\* Value of the digit string s, acc being the value of the digits already read.
DigitsValue(s, acc) ==
    IF Len(s) = 0 THEN acc
    ELSE DigitsValue(Tail(s), acc * 10 + (IndexOf(CharAt(s, 1), DIGITS) - 1))

RECURSIVE NatStr(_)
NatStr(n) ==
    IF n < 10 THEN CharAt(DIGITS, n + 1)
    ELSE NatStr(n \div 10) \o CharAt(DIGITS, (n % 10) + 1)

\* str(n) for an integer n.
IntStr(n) == IF n < 0 THEN "-" \o NatStr(-n) ELSE NatStr(n)

\* The decimals of m thousandths without trailing zeros (at least one digit).
FracStr(f) ==
    IF f % 100 = 0 THEN NatStr(f \div 100)
    ELSE IF f % 10 = 0 THEN NatStr(f \div 100) \o NatStr((f \div 10) % 10)
    ELSE NatStr(f \div 100) \o NatStr((f \div 10) % 10) \o NatStr(f % 10)

\* str(x) for the float x of m thousandths: "0.395", "255.0", "-100.0".
FloatStr(m) ==
    IF m < 0 THEN "-" \o NatStr((-m) \div 1000) \o "." \o FracStr((-m) % 1000)
    ELSE NatStr(m \div 1000) \o "." \o FracStr(m % 1000)

\* The sign and the unsigned rest of a number's text.
Unsigned(s) ==
    IF Len(s) > 0 /\ CharAt(s, 1) \in {"+", "-"} THEN SubSeq(s, 2, Len(s)) ELSE s
Negative(s) == Len(s) > 0 /\ CharAt(s, 1) = "-"

\* The integer of the unsigned digits u, negated when negative.
IntOf(u, negative) ==
    IF Len(u) > 0 /\ AllDigits(u)
    THEN [exc |-> "", n |-> IF negative THEN -DigitsValue(u, 0) ELSE DigitsValue(u, 0)]
    ELSE [exc |-> "ValueError", n |-> 0]

\* int(text): surrounding whitespace, an optional sign, decimal digits.
\* exc is "ValueError" when the text is no integer.
ParseInt(text) == IntOf(Unsigned(strip(text)), Negative(strip(text)))

\* The thousandths of the decimals d (at most three digits).
FracValue(d) ==
    IF Len(d) = 0 THEN 0
    ELSE IF Len(d) = 1 THEN DigitsValue(d, 0) * 100
    ELSE IF Len(d) = 2 THEN DigitsValue(d, 0) * 10
    ELSE DigitsValue(d, 0)

\* The float with the digits whole before and frac after the decimal point.
FloatOf(whole, frac, negative) ==
    IF /\ AllDigits(whole) /\ AllDigits(frac)
       /\ Len(whole) + Len(frac) > 0
       /\ Len(frac) <= 3
    THEN [exc |-> "",
          n |-> IF negative THEN -(DigitsValue(whole, 0) * 1000 + FracValue(frac))
                ELSE DigitsValue(whole, 0) * 1000 + FracValue(frac)]
    ELSE [exc |-> "ValueError", n |-> 0]

\* The float of the unsigned text u, whose decimal point is at p (0: none).
FloatAt(u, p, negative) ==
    IF p = 0 THEN FloatOf(u, "", negative)
    ELSE FloatOf(SubSeq(u, 1, p - 1), SubSeq(u, p + 1, Len(u)), negative)

UnsignedFloat(u, negative) == FloatAt(u, IndexOf(".", u), negative)

\* float(text) in thousandths: surrounding whitespace, an optional sign, digits
\* with an optional decimal point (at least one digit, at most three decimals).
\* Exponents, "inf" and "nan" are outside the modelled texts.
ParseFloat(text) == UnsignedFloat(Unsigned(strip(text)), Negative(strip(text)))

(***************************************************************************)
(* Values.  Every Python value the module handles is one record shape:     *)
(*   k   the type: "bool", "int", "float", "str", "None", an Enum class    *)
(*       ("Mode", "Interpolation", "TimecodeFormat"), "Components", or a   *)
(*       ValidatedValue class                                              *)
(*   pk  for a ValidatedValue, the type of its payload (_value)            *)
(*   i   the number (bool 0/1, int, float in thousandths)                  *)
(*   s   the text (str payload, Enum member name)                          *)
(*   w   the four score weights, in thousandths                            *)
(*   lo, hi  min_val and max_val of a RangeValue, as <<type, number>>      *)
(***************************************************************************)
NoNum == <<"", 0>>
Plain(k, i, s, w) == [k |-> k, pk |-> "", i |-> i, s |-> s, w |-> w, lo |-> NoNum, hi |-> NoNum]

NoneV == Plain("None", 0, "", <<>>)
BoolV(b) == Plain("bool", IF b THEN 1 ELSE 0, "", <<>>)
IntV(n) == Plain("int", n, "", <<>>)
\* The float of m thousandths.
FloatV(m) == Plain("float", m, "", <<>>)
StrV(s) == Plain("str", 0, s, <<>>)
EnumV(cls, name) == Plain(cls, 0, name, <<>>)
ComponentsV(w) == Plain("Components", 0, "", w)

ValidatedValueClasses ==
    {"TimecodeValue", "RangeValue", "ScoreWeightsValue", "KernelSizeValue"}

\* issubclass(type(v), ValidatedValue)
IsValidatedValue(v) == v.k \in ValidatedValueClasses

\* ValidatedValue.value: the payload of the wrapper v.
PayloadOf(v) == [v EXCEPT !.k = v.pk, !.pk = "", !.lo = NoNum, !.hi = NoNum]

\* A number in thousandths, whatever its type (int or float).
Thousandths(kind, n) == IF kind = "int" THEN n * 1000 ELSE n

\* str(x) for a number.
NumStr(kind, n) == IF kind = "int" THEN IntStr(n) ELSE FloatStr(n)

\* Result of a call that may raise: exc is "" on a normal return.
Returned(v) == [exc |-> "", error |-> "", val |-> v]
Raised(exc, error) == [exc |-> exc, error |-> error, val |-> NoneV]

(***************************************************************************)
(* Enumerations.                                                           *)
(***************************************************************************)
\* scenedetect.scene_detector.FlashFilter.Mode
FlashFilterMode == <<"MERGE", "SUPPRESS">>
\* scenedetect.scene_manager.Interpolation
Interpolation == <<"NEAREST", "LINEAR", "CUBIC", "AREA", "LANCZOS4">>
TimecodeFormat == <<"FRAMES", "TIMECODE", "SECONDS">>

EnumClasses == {"Mode", "Interpolation", "TimecodeFormat"}

\* The member names of an Enum class, in definition order.
EnumMembers(cls) ==
    IF cls = "Mode" THEN FlashFilterMode
    ELSE IF cls = "Interpolation" THEN Interpolation
    ELSE TimecodeFormat

\* isinstance(v, Enum)
IsEnum(v) == v.k \in EnumClasses

\* EnumClass[name]: the member of that name; EnumMeta.__getitem__ is a lookup in
\* the class's member map and raises KeyError for a name that is no member.
EnumGetItem(cls, name) ==
    IF Contains(EnumMembers(cls), name) THEN Returned(EnumV(cls, name))
    ELSE Raised("KeyError", name)

RECURSIVE LowerAll(_)
LowerAll(names) ==
    IF Len(names) = 0 THEN <<>> ELSE <<lower(names[1])>> \o LowerAll(Tail(names))

(***************************************************************************)
(* The validators' "except ValueError as ex: raise OptionParseFailure(..)" *)
(***************************************************************************)
OnValueError(r, error) ==
    IF r.exc = "ValueError" THEN Raised("OptionParseFailure", error) ELSE r

\* A ValidatedValue of class k with the payload (pk, i, s, w).
Validated(k, pk, i, s, w) ==
    [k |-> k, pk |-> pk, i |-> i, s |-> s, w |-> w, lo |-> NoNum, hi |-> NoNum]

(***************************************************************************)
(* TimecodeValue                                                           *)
(***************************************************************************)
\* "HH:MM:SS[.nnn]" with its colons at a and a + b: minutes and seconds below 60.
ClockAccepts(text, a, b) ==
    /\ a > 1 /\ b > 1
    /\ AllDigits(SubSeq(text, 1, a - 1))
    /\ AllDigits(SubSeq(text, a + 1, a + b - 1))
    /\ DigitsValue(SubSeq(text, a + 1, a + b - 1), 0) < 60
    /\ ParseFloat(SubSeq(text, a + b + 1, Len(text))).exc = ""
    /\ ~Negative(SubSeq(text, a + b + 1, Len(text)))
    /\ ParseFloat(SubSeq(text, a + b + 1, Len(text))).n < 60 * 1000

\* A number of frames or of seconds: not negative.
SecondsAccepts(secs) == ParseFloat(secs).exc = "" /\ ~Negative(strip(secs))

\* FrameTimecode(timecode=text, fps=100.0) accepts the text: a frame number, a
\* number of seconds (with or without a trailing "s"), or HH:MM:SS[.nnn].
FrameTimecodeAccepts(text) ==
    IF IndexOf(":", text) # 0
    THEN ClockAccepts(text, IndexOf(":", text),
                      IndexOf(":", SubSeq(text, IndexOf(":", text) + 1, Len(text))))
    ELSE IF Len(text) > 0 /\ CharAt(text, Len(text)) = "s"
    THEN SecondsAccepts(SubSeq(text, 1, Len(text) - 1))
    ELSE SecondsAccepts(text)

\* TimecodeValue.__init__ for a text: stores the text as given.
TimecodeValueInit(text) ==
    IF FrameTimecodeAccepts(text)
    THEN Returned(Validated("TimecodeValue", "str", 0, text, <<>>))
    ELSE Raised("ValueError", "")

\* TimecodeValue(0), the default of every detector's min-scene-len.
TimecodeZero == Validated("TimecodeValue", "int", 0, "", <<>>)

TimecodeValue_from_config(config_value, default) ==
    OnValueError(TimecodeValueInit(config_value),
                 "Timecodes must be in seconds (100.0), frames (100), or HH:MM:SS.")

(***************************************************************************)
(* RangeValue                                                              *)
(***************************************************************************)
\* RangeValue.__init__: kind and n are the value, lo and hi the bounds.
RangeValueInit(kind, n, lo, hi) ==
    IF \/ Thousandths(kind, n) < Thousandths(lo[1], lo[2])
       \/ Thousandths(kind, n) > Thousandths(hi[1], hi[2])
    THEN Raised("ValueError", "")
    ELSE Returned([k |-> "RangeValue", pk |-> kind, i |-> n, s |-> "", w |-> <<>>,
                   lo |-> lo, hi |-> hi])

\* RangeValue(value=num, ...) for the outcome num of int() or float().
RangeOf(num, kind, default) ==
    IF num.exc # "" THEN Raised("ValueError", "")
    ELSE RangeValueInit(kind, num.n, default.lo, default.hi)

RangeValue_from_config(config_value, default) ==
    OnValueError(
        IF default.pk = "int" THEN RangeOf(ParseInt(config_value), "int", default)
        ELSE RangeOf(ParseFloat(config_value), "float", default),
        "Value must be between " \o NumStr(default.lo[1], default.lo[2])
            \o " and " \o NumStr(default.hi[1], default.hi[2]) \o ".")

(***************************************************************************)
(* ScoreWeightsValue                                                       *)
(***************************************************************************)
\* ScoreWeightsValue._IGNORE_CHARS, and the blanks they are translated to.
IGNORE_CHARS == ",/()"
IGNORE_BLANKS == "    "

\* The float h in front of the floats t, unless one of them failed.
ConsFloat(h, t) ==
    IF h.exc # "" \/ t.exc # "" THEN [exc |-> "ValueError", ns |-> <<>>]
    ELSE [exc |-> "", ns |-> <<h.n>> \o t.ns]

RECURSIVE ParseFloats(_)
\* float(val) for each word; exc is "ValueError" when one of them is no number.
ParseFloats(words) ==
    IF Len(words) = 0 THEN [exc |-> "", ns |-> <<>>]
    ELSE ConsFloat(ParseFloat(words[1]), ParseFloats(Tail(words)))

\* Components(*(float(val) for val in values)) when there are four values.
WeightsOf(values, floats) ==
    IF Len(values) # 4 \/ floats.exc # "" THEN Raised("ValueError", "")
    ELSE Returned(Validated("ScoreWeightsValue", "Components", 0, "", floats.ns))

FourWords(values) == WeightsOf(values, ParseFloats(values))

\* ScoreWeightsValue.__init__ for a text.
ScoreWeightsValueInit(text) == FourWords(split(MapChars(text, IGNORE_CHARS, IGNORE_BLANKS)))

\* ContentDetector.DEFAULT_COMPONENT_WEIGHTS: Components(1.0, 1.0, 1.0, 0.0)
DEFAULT_COMPONENT_WEIGHTS == <<1000, 1000, 1000, 0>>

\* ScoreWeightsValue(ContentDetector.DEFAULT_COMPONENT_WEIGHTS)
ScoreWeightsDefault ==
    Validated("ScoreWeightsValue", "Components", 0, "", DEFAULT_COMPONENT_WEIGHTS)

ScoreWeightsValue_from_config(config_value, default) ==
    OnValueError(ScoreWeightsValueInit(config_value),
                 "Score weights must be specified as four numbers in the form (H,S,L,E),"
                     \o " e.g. (0.9, 0.2, 2.0, 0.5). Commas/brackets/slashes are ignored.")

(***************************************************************************)
(* KernelSizeValue                                                         *)
(***************************************************************************)
\* KernelSizeValue.__init__
KernelSizeValueInit(value) ==
    IF value = -1 THEN Returned(Validated("KernelSizeValue", "None", 0, "", <<>>))
    ELSE IF value < 0 THEN Raised("ValueError", "")
    ELSE IF value % 2 = 0 THEN Raised("ValueError", "")
    ELSE Returned(Validated("KernelSizeValue", "int", value, "", <<>>))

\* KernelSizeValue(int(config_value)) for the outcome num of int().
KernelSizeOf(num) ==
    IF num.exc # "" THEN Raised("ValueError", "") ELSE KernelSizeValueInit(num.n)

KernelSizeValue_from_config(config_value, default) ==
    OnValueError(KernelSizeOf(ParseInt(config_value)),
                 "Value must be an odd integer greater than 1, or set to -1 for auto kernel size.")

\* option_type.from_config(config_value=..., default=...): dispatch on the class
\* of the schema default.
from_config(config_value, default) ==
    IF default.k = "TimecodeValue" THEN TimecodeValue_from_config(config_value, default)
    ELSE IF default.k = "RangeValue" THEN RangeValue_from_config(config_value, default)
    ELSE IF default.k = "ScoreWeightsValue"
    THEN ScoreWeightsValue_from_config(config_value, default)
    ELSE KernelSizeValue_from_config(config_value, default)

(***************************************************************************)
(* The schema.                                                             *)
(***************************************************************************)
PYAV_THREADING_MODES == <<"NONE", "SLICE", "FRAME", "AUTO">>

\* scenedetect.video_splitter.DEFAULT_FFMPEG_ARGS
DEFAULT_FFMPEG_ARGS ==
    "-map 0:v:0 -map 0:a? -map 0:s? -c:v libx264 -preset veryfast -crf 22 -c:a aac"

\* Placeholder for the image quality default.
PLACEHOLDER == 0

\* RangeValue(n, min_val=lo, max_val=hi) as written in the schema.
Range(kind, n, lo, hi) == RangeValueInit(kind, n, lo, hi).val
F(m) == <<"float", m>>
N(n) == <<"int", n>>

\* TimecodeValue("0.6s")
TimecodeDefault(text) == TimecodeValueInit(text).val

\* KernelSizeValue(-1)
KernelSizeDefault == KernelSizeValueInit(-1).val

Section(name, options) == [name |-> name, options |-> options]

\* CONFIG_MAP: the sections in declaration order, each with its options in
\* declaration order as <<option, default>>.
CONFIG_MAP == <<
    Section("backend-opencv", <<
        <<"max-decode-attempts", IntV(5)>> >>),
    Section("backend-pyav", <<
        <<"suppress-output", BoolV(FALSE)>>,
        <<"threading-mode", StrV("auto")>> >>),
    Section("detect-adaptive", <<
        <<"frame-window", IntV(2)>>,
        <<"kernel-size", KernelSizeDefault>>,
        <<"luma-only", BoolV(FALSE)>>,
        <<"min-content-val", Range("float", 15000, F(0), F(255000))>>,
        <<"min-delta-hsv", Range("float", 15000, F(0), F(255000))>>,
        <<"min-scene-len", TimecodeZero>>,
        <<"threshold", Range("float", 3000, F(0), F(255000))>>,
        <<"weights", ScoreWeightsDefault>> >>),
    Section("detect-content", <<
        <<"filter-mode", EnumV("Mode", "MERGE")>>,
        <<"kernel-size", KernelSizeDefault>>,
        <<"luma-only", BoolV(FALSE)>>,
        <<"min-scene-len", TimecodeZero>>,
        <<"threshold", Range("float", 27000, F(0), F(255000))>>,
        <<"weights", ScoreWeightsDefault>> >>),
    Section("detect-hash", <<
        <<"min-scene-len", TimecodeZero>>,
        <<"lowpass", Range("int", 2, N(1), N(256))>>,
        <<"size", Range("int", 16, N(1), N(256))>>,
        <<"threshold", Range("float", 395, F(0), F(1000))>> >>),
    Section("detect-hist", <<
        <<"min-scene-len", TimecodeZero>>,
        <<"threshold", Range("float", 50, F(0), F(1000))>>,
        <<"bins", Range("int", 256, N(1), N(256))>> >>),
    Section("detect-threshold", <<
        <<"add-last-scene", BoolV(TRUE)>>,
        <<"fade-bias", Range("int", 0, F(-100000), F(100000))>>,
        <<"min-scene-len", TimecodeZero>>,
        <<"threshold", Range("float", 12000, F(0), F(255000))>> >>),
    Section("load-scenes", <<
        <<"start-col-name", StrV("Start Frame")>> >>),
    Section("export-html", <<
        <<"filename", StrV("$VIDEO_NAME-Scenes.html")>>,
        <<"image-height", IntV(0)>>,
        <<"image-width", IntV(0)>>,
        <<"no-images", BoolV(FALSE)>>,
        <<"show", BoolV(FALSE)>> >>),
    Section("list-scenes", <<
        <<"cut-format", EnumV("TimecodeFormat", "TIMECODE")>>,
        <<"display-cuts", BoolV(TRUE)>>,
        <<"display-scenes", BoolV(TRUE)>>,
        <<"filename", StrV("$VIDEO_NAME-Scenes.csv")>>,
        <<"output", NoneV>>,
        <<"no-output-file", BoolV(FALSE)>>,
        <<"quiet", BoolV(FALSE)>>,
        <<"skip-cuts", BoolV(FALSE)>> >>),
    Section("global", <<
        <<"backend", StrV("opencv")>>,
        <<"default-detector", StrV("detect-adaptive")>>,
        <<"downscale", IntV(0)>>,
        <<"downscale-method", EnumV("Interpolation", "LINEAR")>>,
        <<"drop-short-scenes", BoolV(FALSE)>>,
        <<"frame-skip", IntV(0)>>,
        <<"merge-last-scene", BoolV(FALSE)>>,
        <<"min-scene-len", TimecodeDefault("0.6s")>>,
        <<"output", NoneV>>,
        <<"verbosity", StrV("info")>> >>),
    Section("save-images", <<
        <<"compression", Range("int", 3, N(0), N(9))>>,
        <<"filename", StrV("$VIDEO_NAME-Scene-$SCENE_NUMBER-$IMAGE_NUMBER")>>,
        <<"format", StrV("jpeg")>>,
        <<"frame-margin", IntV(1)>>,
        <<"height", IntV(0)>>,
        <<"num-images", IntV(3)>>,
        <<"output", NoneV>>,
        <<"quality", Range("int", PLACEHOLDER, N(0), N(100))>>,
        <<"scale", FloatV(1000)>>,
        <<"scale-method", EnumV("Interpolation", "LINEAR")>>,
        <<"width", IntV(0)>> >>),
    Section("save-qp", <<
        <<"disable-shift", BoolV(FALSE)>>,
        <<"filename", StrV("$VIDEO_NAME.qp")>>,
        <<"output", NoneV>> >>),
    Section("split-video", <<
        <<"args", StrV(DEFAULT_FFMPEG_ARGS)>>,
        <<"copy", BoolV(FALSE)>>,
        <<"filename", StrV("$VIDEO_NAME-Scene-$SCENE_NUMBER")>>,
        <<"high-quality", BoolV(FALSE)>>,
        <<"mkvmerge", BoolV(FALSE)>>,
        <<"output", NoneV>>,
        <<"preset", StrV("veryfast")>>,
        <<"quiet", BoolV(FALSE)>>,
        <<"rate-factor", Range("int", 22, N(0), N(100))>> >>)
>>

\* CHOICE_MAP: for each section, <<option, accepted lowercase literals>>.
CHOICE_MAP == <<
    Section("backend-pyav", <<
        <<"threading_mode", LowerAll(PYAV_THREADING_MODES)>> >>),
    Section("detect-content", <<
        <<"filter-mode", LowerAll(FlashFilterMode)>> >>),
    Section("global", <<
        <<"backend", <<"opencv", "pyav", "moviepy">> >>,
        <<"default-detector", <<"detect-adaptive", "detect-content", "detect-threshold",
                                "detect-hash", "detect-hist">> >>,
        <<"downscale-method", LowerAll(Interpolation)>>,
        <<"verbosity", <<"debug", "info", "warning", "error", "none">> >> >>),
    Section("list-scenes", <<
        <<"cut-format", LowerAll(TimecodeFormat)>> >>),
    Section("save-images", <<
        <<"format", <<"jpeg", "png", "webp">> >>,
        <<"scale-method", LowerAll(Interpolation)>> >>),
    Section("split-video", <<
        <<"preset", <<"ultrafast", "superfast", "veryfast", "faster", "fast", "medium",
                      "slow", "slower", "veryslow">> >> >>)
>>

\* Index of the section called name in a section map, 0 when absent.
SectionIndex(map, name) ==
    IF \E i \in 1..Len(map) : map[i].name = name
    THEN CHOOSE i \in 1..Len(map) : map[i].name = name
    ELSE 0

\* Index of the option called option among <<option, value>> pairs, 0 when absent.
OptionIndex(options, option) ==
    IF \E i \in 1..Len(options) : options[i][1] = option
    THEN CHOOSE i \in 1..Len(options) : options[i][1] = option
    ELSE 0

\* section in map
HasSection(map, section) == SectionIndex(map, section) # 0

\* section in map and option in map[section]
HasOption(map, section, option) ==
    /\ HasSection(map, section)
    /\ OptionIndex(map[SectionIndex(map, section)].options, option) # 0

\* options[option], for an option among the <<option, value>> pairs.
OptionValue(options, option) == options[OptionIndex(options, option)][2]

\* map[section][option], for an option the map has.
Lookup(map, section, option) ==
    OptionValue(map[SectionIndex(map, section)].options, option)

\* Every (section, option) of the schema, as <<section, option>>.
SchemaKeys ==
    UNION {{<<CONFIG_MAP[i].name, CONFIG_MAP[i].options[j][1]>> :
                j \in 1..Len(CONFIG_MAP[i].options)} : i \in 1..Len(CONFIG_MAP)}

(***************************************************************************)
(* The tokenized file.  A file is a sequence of lines [section, option,    *)
(* value]: the option "option = value" under the header [section]; a line  *)
(* with option "" is a header with nothing under it.  ConfigParser hands   *)
(* back the sections in file order, each with its options in file order.   *)
(***************************************************************************)
Line(section, option, value) == [section |-> section, option |-> option, value |-> value]

\* The option of a line, as the <<option, value>> pairs it adds to its section.
Item(l) == IF l.option = "" THEN <<>> ELSE <<<<l.option, l.value>>>>

\* The sections acc with the line l added, i being the index of its section in
\* acc (0: a new section).
AddLine(acc, l, i) ==
    IF i = 0 THEN Append(acc, Section(l.section, Item(l)))
    ELSE [acc EXCEPT ![i].options = acc[i].options \o Item(l)]

RECURSIVE Tokenize(_, _)
\* ConfigParser.read_string: the sections of the file, acc being those of the
\* lines already read.
Tokenize(file, acc) ==
    IF Len(file) = 0 THEN acc
    ELSE Tokenize(Tail(file), AddLine(acc, file[1], SectionIndex(acc, file[1].section)))

\* ConfigParser._convert_to_boolean, used by getboolean.
getboolean(text) ==
    IF lower(text) \in {"1", "yes", "true", "on"} THEN Returned(BoolV(TRUE))
    ELSE IF lower(text) \in {"0", "no", "false", "off"} THEN Returned(BoolV(FALSE))
    ELSE Raised("ValueError", "")

\* The number r that int() or float() gave, as a value of type kind.
Number(r, kind) ==
    IF r.exc = "" THEN Returned(Plain(kind, r.n, "", <<>>)) ELSE Raised("ValueError", "")

\* ConfigParser.getint
getint(text) == Number(ParseInt(text), "int")

\* ConfigParser.getfloat
getfloat(text) == Number(ParseFloat(text), "float")

(***************************************************************************)
(* _validate_structure                                                     *)
(***************************************************************************)
RECURSIVE UnsupportedOptions(_, _, _)
\* The inner loop: one error for each option of the file's section that the
\* schema section does not declare, from the j-th option on.
UnsupportedOptions(section, options, j) ==
    IF j > Len(options) THEN <<>>
    ELSE (IF ~HasOption(CONFIG_MAP, section, options[j][1])
          THEN <<"Unsupported config option in [" \o section \o "]: " \o options[j][1]>>
          ELSE <<>>)
            \o UnsupportedOptions(section, options, j + 1)

RECURSIVE ValidateSections_NoContinue(_, _)
\* The outer loop without its "continue": the options of an unknown section are
\* looked up in the schema as well.
ValidateSections_NoContinue(config, i) ==
    IF i > Len(config) THEN <<>>
    ELSE (IF ~HasSection(CONFIG_MAP, config[i].name)
          THEN <<"Unsupported config section: [" \o config[i].name \o "]">>
          ELSE <<>>)
            \o UnsupportedOptions(config[i].name, config[i].options, 1)
            \o ValidateSections_NoContinue(config, i + 1)

RECURSIVE ValidateSections(_, _)
\* The outer loop, from the i-th section of the file on.
ValidateSections(config, i) ==
    IF i > Len(config) THEN <<>>
    ELSE (IF ~HasSection(CONFIG_MAP, config[i].name)
          THEN <<"Unsupported config section: [" \o config[i].name \o "]">>
          ELSE UnsupportedOptions(config[i].name, config[i].options, 1))
            \o ValidateSections(config, i + 1)

validate_structure(config) == ValidateSections(config, 1)

(***************************************************************************)
(* _parse_config                                                           *)
(***************************************************************************)
\* Outcome of one option of the file: the value to store (store), or the error
\* to record (error # ""), or the exception that leaves _parse_config (exc).
Stored(v) == [exc |-> "", error |-> "", store |-> TRUE, val |-> v]
Recorded(error) == [exc |-> "", error |-> error, store |-> FALSE, val |-> NoneV]
Escaped(exc) == [exc |-> exc, error |-> "", store |-> FALSE, val |-> NoneV]

\* The "except ValueError" handler of the bool / int / float / Enum block.
NotAValid(command, option, raw, value_type) ==
    "Invalid [" \o command \o "] value for " \o option \o ": " \o raw
        \o " is not a valid " \o value_type \o "."

\* The "Must be one of" message of an option with a choice list.
MustBeOneOf(command, option, raw) ==
    "Invalid [" \o command \o "] value for " \o option \o ": " \o raw
        \o ". Must be one of: " \o join(", ", Lookup(CHOICE_MAP, command, option)) \o "."

\* A coercion by ConfigParser inside the try block: stored on success, recorded
\* by the "except ValueError" handler on failure.
Coerced(r, command, option, raw, value_type) ==
    IF r.exc = "" THEN Stored(r.val)
    ELSE IF r.exc = "ValueError" THEN Recorded(NotAValid(command, option, raw, value_type))
    ELSE Escaped(r.exc)

\* The handlers around the Enum lookup r: the inner one catches TypeError, the
\* outer one ValueError (value_type is still None there); any other exception
\* leaves _parse_config.
EnumOutcome(r, command, option, raw) ==
    IF r.exc = "" THEN Stored(r.val)
    ELSE IF r.exc = "TypeError" THEN Recorded(MustBeOneOf(command, option, raw))
    ELSE IF r.exc = "ValueError" THEN Recorded(NotAValid(command, option, raw, "None"))
    ELSE Escaped(r.exc)

\* The Enum branch.
ParseEnum(command, option, raw, default) ==
    EnumOutcome(EnumGetItem(default.k, upper(strip(replace(raw, "\n", " ")))),
                command, option, raw)

\* The handler around from_config's outcome r.
ValidatedOutcome(r, command, option, raw) ==
    IF r.exc = "" THEN Stored(r.val)
    ELSE IF r.exc = "OptionParseFailure"
    THEN Recorded("Invalid [" \o command \o "] value for " \o option \o ":\n  "
                     \o raw \o "\n" \o r.error)
    ELSE Escaped(r.exc)

\* The custom validation types.
ParseValidated(command, option, raw, default) ==
    ValidatedOutcome(from_config(raw, default), command, option, raw)

\* The choice check of the normalised string config_value.
StringOutcome(config_value, command, option, raw) ==
    IF /\ HasOption(CHOICE_MAP, command, option)
       /\ ~Contains(Lookup(CHOICE_MAP, command, option), lower(config_value))
    THEN Recorded(MustBeOneOf(command, option, raw))
    ELSE Stored(StrV(config_value))

\* Everything else is handled as a string.
ParseString(command, option, raw) ==
    StringOutcome(strip(replace(raw, "\n", " ")), command, option, raw)

\* The body of the loops for an option the file sets to raw: the branch is
\* chosen by the type of the schema default.
ParseTyped(command, option, raw, default) ==
    IF default.k = "bool"
    THEN Coerced(getboolean(raw), command, option, raw, "yes/no value")
    ELSE IF default.k = "int"
    THEN Coerced(getint(raw), command, option, raw, "integer")
    ELSE IF default.k = "float"
    THEN Coerced(getfloat(raw), command, option, raw, "number")
    ELSE IF IsEnum(default) THEN ParseEnum(command, option, raw, default)
    ELSE IF IsValidatedValue(default) THEN ParseValidated(command, option, raw, default)
    ELSE ParseString(command, option, raw)

ParseOption(config, command, option) ==
    ParseTyped(command, option, Lookup(config, command, option),
               Lookup(CONFIG_MAP, command, option))

\* The state of the inner loop after the outcome r of option: out_map[command]
\* (options), the errors so far, the exception that ended the loop.
AfterOption(acc, option, r) ==
    [options |-> IF r.store THEN Append(acc.options, <<option, r.val>>) ELSE acc.options,
     errors |-> IF r.error # "" THEN Append(acc.errors, r.error) ELSE acc.errors,
     exc |-> r.exc]

RECURSIVE ParseOptions(_, _, _, _, _)
\* The inner loop over the options of the schema section, from the j-th on.
ParseOptions(config, command, options, j, acc) ==
    IF j > Len(options) \/ acc.exc # "" THEN acc
    ELSE IF ~HasOption(config, command, options[j][1])
    THEN ParseOptions(config, command, options, j + 1, acc)
    ELSE ParseOptions(config, command, options, j + 1,
            AfterOption(acc, options[j][1], ParseOption(config, command, options[j][1])))

\* The state of the outer loop after the inner loop ended as r for command.
AfterSection(acc, command, r) ==
    [out_map |-> Append(acc.out_map, Section(command, r.options)),
     errors |-> r.errors,
     exc |-> r.exc]

RECURSIVE ParseSections(_, _, _)
\* The outer loop over the schema sections, from the i-th on.
ParseSections(config, i, acc) ==
    IF i > Len(CONFIG_MAP) \/ acc.exc # "" THEN acc
    ELSE ParseSections(config, i + 1,
            AfterSection(acc, CONFIG_MAP[i].name,
                ParseOptions(config, CONFIG_MAP[i].name, CONFIG_MAP[i].options, 1,
                             [options |-> <<>>, errors |-> acc.errors, exc |-> ""])))

\* _parse_config: (out_map, errors), or the exception that left it.
parse_config(config) ==
    ParseSections(config, 1, [out_map |-> <<>>, errors |-> <<>>, exc |-> ""])

(***************************************************************************)
(* ConfigRegistry                                                          *)
(***************************************************************************)
\* logging.ERROR, logging.INFO, logging.DEBUG
ERROR == 40
INFO == 20
DEBUG == 10

\* os.path.join(user_config_dir("PySceneDetect", False), "scenedetect.cfg")
CONFIG_FILE_PATH == "~/.config/PySceneDetect/scenedetect.cfg"

\* str() of the exception the tokenizer or open() raised for the file at path.
ReasonText(read, path) ==
    IF read = "ParsingError"
    THEN "Source contains parsing errors: '" \o path \o "'\n\t[line  1]: '?'"
    ELSE "[Errno 13] Permission denied: '" \o path \o "'"

RECURSIVE AsErrors(_)
\* for log_str in errors: self._init_log.append((logging.ERROR, log_str))
AsErrors(errors) ==
    IF Len(errors) = 0 THEN <<>>
    ELSE <<<<ERROR, errors[1]>>>> \o AsErrors(Tail(errors))

\* Outcome of _load_from_disk: the registry's _config and _init_log when it
\* ends, the exception that left it (exc, "" on return) and the
\* ConfigLoadFailure's reason ("" for None).
Loaded(config, log, exc, reason) ==
    [config |-> config, log |-> log, exc |-> exc, reason |-> reason]

\* self._config, errors = _parse_config(config), then "if errors:"; parsed is
\* what _parse_config gave.
AdoptParsed(parsed, log) ==
    IF parsed.exc # "" THEN Loaded(<<>>, log, parsed.exc, "")
    ELSE IF Len(parsed.errors) # 0
    THEN Loaded(parsed.out_map, log \o AsErrors(parsed.errors), "ConfigLoadFailure", "")
    ELSE Loaded(parsed.out_map, log, "", "")

\* _load_from_disk without its "if not errors:": the value parser runs whatever
\* the structural validator reported, and the errors of both are logged.
AfterStructure_AlwaysParse(structural, config, log) ==
    IF Len(structural) # 0
    THEN AdoptParsed([out_map |-> parse_config(config).out_map,
                      errors |-> structural \o parse_config(config).errors,
                      exc |-> parse_config(config).exc], log)
    ELSE AdoptParsed(parse_config(config), log)

\* errors = _validate_structure(config); "if not errors:" the value parser runs.
AfterStructure(structural, config, log) ==
    IF Len(structural) # 0
    THEN Loaded(<<>>, log \o AsErrors(structural), "ConfigLoadFailure", "")
    ELSE AdoptParsed(parse_config(config), log)

\* The validation of a tokenized file, log being the log so far.
ValidateAndParse(config, log) == AfterStructure(validate_structure(config), config, log)

\* Reading and tokenizing the file at location, then validating it.
ReadAndValidate(location, read, text, log) ==
    IF read # "ok" THEN Loaded(<<>>, log, "ConfigLoadFailure", ReasonText(read, location))
    ELSE ValidateAndParse(Tokenize(text, <<>>), log)

\* _load_from_disk requiring the default location to exist as it requires an
\* explicit path to exist.
load_from_disk_DefaultRequired(p, exists, read, text) ==
    IF ~exists
    THEN Loaded(<<>>, <<<<INFO, "Loading config from file:\n  " \o p>>,
                        <<ERROR, "File not found: " \o p>>>>,
                "ConfigLoadFailure", "")
    ELSE IF p # ""
    THEN ReadAndValidate(p, read, text,
                         <<<<INFO, "Loading config from file:\n  " \o p>>>>)
    ELSE ReadAndValidate(CONFIG_FILE_PATH, read, text,
            <<<<INFO, "Loading user config file:\n  " \o CONFIG_FILE_PATH>>>>)

\* ConfigRegistry._load_from_disk.  p is the path argument ("" when none is
\* given), exists whether the consulted location exists, read and text what
\* reading it gives.
load_from_disk(p, exists, read, text) ==
    IF p # ""
    THEN IF ~exists
         THEN Loaded(<<>>, <<<<INFO, "Loading config from file:\n  " \o p>>,
                             <<ERROR, "File not found: " \o p>>>>,
                     "ConfigLoadFailure", "")
         ELSE ReadAndValidate(p, read, text,
                              <<<<INFO, "Loading config from file:\n  " \o p>>>>)
    ELSE IF ~exists
    THEN Loaded(<<>>, <<<<DEBUG, "User config file not found.">>>>, "", "")
    ELSE ReadAndValidate(CONFIG_FILE_PATH, read, text,
            <<<<INFO, "Loading user config file:\n  " \o CONFIG_FILE_PATH>>>>)

\* The "except ConfigLoadFailure" handler of __init__ when throw_exception is
\* False: the log the registry keeps.
RetainedLog(r) ==
    IF r.reason # ""
    THEN Append(r.log, <<ERROR, "Error: " \o replace(r.reason, "\t", "  ")>>)
    ELSE r.log

\* is_default looking no further than the section.
is_default_SectionOnly(config, command, option) == ~HasSection(config, command)

\* ConfigRegistry.is_default
is_default(config, command, option) == ~HasOption(config, command, option)

\* ConfigRegistry.get_value; override is NoneV when absent.
\* The end of get_value: a ValidatedValue is returned as its payload.
Unwrapped(value) == IF IsValidatedValue(value) THEN PayloadOf(value) ELSE value

\* get_value testing its override for truth ("if override:") rather than for
\* None: a False override is passed over.
get_value_TruthyOverride(config, command, option, override) ==
    IF override # NoneV /\ override # BoolV(FALSE) THEN override
    ELSE IF HasOption(config, command, option)
    THEN Unwrapped(Lookup(config, command, option))
    ELSE Unwrapped(Lookup(CONFIG_MAP, command, option))

get_value(config, command, option, override) ==
    IF override # NoneV THEN override
    ELSE IF HasOption(config, command, option)
    THEN Unwrapped(Lookup(config, command, option))
    ELSE Unwrapped(Lookup(CONFIG_MAP, command, option))

\* The three decimals of f thousandths.
Decimals3(f) == NatStr(f \div 100) \o NatStr((f \div 10) % 10) \o NatStr(f % 10)

\* "%.3f" % x for the float x of m thousandths.
Fixed3(m) ==
    IF m < 0 THEN "-" \o NatStr((-m) \div 1000) \o "." \o Decimals3((-m) % 1000)
    ELSE NatStr(m \div 1000) \o "." \o Decimals3(m % 1000)

\* str(v)
StrOf(v) ==
    IF v.k = "bool" THEN (IF v.i = 1 THEN "True" ELSE "False")
    ELSE IF v.k = "int" THEN IntStr(v.i)
    ELSE IF v.k = "float" THEN FloatStr(v.i)
    ELSE IF v.k = "str" THEN v.s
    ELSE IF v.k = "None" THEN "None"
    ELSE IF IsEnum(v) THEN v.k \o "." \o v.s
    ELSE IF v.k = "RangeValue" THEN NumStr(v.pk, v.i)
    ELSE IF v.k = "TimecodeValue" THEN (IF v.pk = "int" THEN IntStr(v.i) ELSE v.s)
    ELSE IF v.k = "ScoreWeightsValue"
    THEN Fixed3(v.w[1]) \o ", " \o Fixed3(v.w[2]) \o ", " \o Fixed3(v.w[3])
            \o ", " \o Fixed3(v.w[4])
    ELSE IF v.pk = "None" THEN "auto" ELSE IntStr(v.i)

\* ConfigRegistry.get_help_string; show_default is NoneV, BoolV(TRUE) or BoolV(FALSE).
\* value_str of an option the file set to value.
SettingStr(value, is_flag) ==
    IF is_flag THEN (IF value.i # 0 THEN "on" ELSE "off") ELSE StrOf(value)

\* The help text of an option the file did not set.
DefaultHelp(default, show_default) ==
    IF \/ show_default = BoolV(FALSE)
       \/ (show_default = NoneV /\ default.k = "bool" /\ default = BoolV(FALSE))
    THEN ""
    ELSE " [default: " \o StrOf(default) \o "]"

get_help_string(config, command, option, show_default) ==
    IF HasOption(config, command, option)
    THEN " [setting: "
            \o SettingStr(Lookup(config, command, option),
                          Lookup(CONFIG_MAP, command, option).k = "bool")
            \o "]"
    ELSE DefaultHelp(Lookup(CONFIG_MAP, command, option), show_default)

(***************************************************************************)
(* The modelled inputs.                                                    *)
(***************************************************************************)
\* An explicit path argument.
CustomPath == "custom.cfg"

\* The whole number of a bound, as text.
WholeStr(bound) == IntStr(IF bound[1] = "int" THEN bound[2] ELSE bound[2] \div 1000)

\* For a RangeValue default: its bounds as str() prints them and as whole
\* numbers, and the nearest numbers outside them.
BoundaryTexts(default) ==
    { NumStr(default.lo[1], default.lo[2]), NumStr(default.hi[1], default.hi[2]),
      NumStr(default.lo[1], default.lo[2] - 1), NumStr(default.hi[1], default.hi[2] + 1),
      WholeStr(default.lo), WholeStr(default.hi),
      IntStr(Thousandths(default.lo[1], default.lo[2]) \div 1000 - 1),
      IntStr(Thousandths(default.hi[1], default.hi[2]) \div 1000 + 1) }

\* Values a file may give to an option, by the type of the schema default.
RawTextsFor(default) ==
    {"", "abc"} \cup
    (IF default.k = "bool" THEN {"yes", "Off", "2"}
     ELSE IF default.k = "int" THEN {"5", "-3", "1.5"}
     ELSE IF default.k = "float" THEN {"0.5", "2", "1,5"}
     ELSE IF default.k = "Mode" THEN {"suppress", "Merge", "merge\nall"}
     ELSE IF default.k = "Interpolation" THEN {"cubic", "LANCZOS4", "bilinear"}
     ELSE IF default.k = "TimecodeFormat" THEN {"frames", "Seconds", "hours"}
     ELSE IF default.k = "RangeValue"
     THEN {"0", "1", "0.5", "-1", "256", "300"} \cup BoundaryTexts(default)
     ELSE IF default.k = "TimecodeValue" THEN {"10", "1.5s", "00:01:02.500", "00:61:00"}
     ELSE IF default.k = "ScoreWeightsValue"
     THEN {"(0.9, 0.2, 2.0, 0.5)", "1 1 1", "1/2/3/x"}
     ELSE IF default.k = "KernelSizeValue" THEN {"-1", "3", "4", "1", "-2", "0", "5"}
     ELSE {"PyAV", "png", "veryfast", "Debug", "detect-hash", "auto", "two\nlines"})

\* The files of one line: every schema option with every value of its type.
SingleOptionFiles ==
    UNION {{<<Line(key[1], key[2], raw)>> :
                raw \in RawTextsFor(Lookup(CONFIG_MAP, key[1], key[2]))} : key \in SchemaKeys}

\* The lines the longer files are made of: valid and invalid values of known
\* options, unknown options of known sections, unknown sections.
FocusLines == {
    Line("global", "backend", "PyAV"),
    Line("global", "verbosity", "loud"),
    Line("global", "colour", "1"),
    Line("detect-content", "threshold", "300"),
    Line("detect-content", "luma-only", "maybe"),
    Line("detect-content", "filter-mode", "blend"),
    Line("detect-content", "min-scene-len", "10"),
    Line("detect-content", "speed", "fast"),
    Line("save-images", "num-images", "5"),
    Line("save-images", "scale-method", "cubic"),
    Line("bogus", "threshold", "300"),
    Line("empty", "", "") }

\* A file ConfigParser accepts: no option twice in a section, no section header
\* twice (the lines of a section are adjacent), nothing else under an empty header.
WellFormed(f) ==
    /\ \A i, j \in 1..Len(f) :
          (i < j /\ f[i].section = f[j].section) =>
              /\ f[i].option # f[j].option
              /\ f[i].option # "" /\ f[j].option # ""
              /\ \A m \in i..j : f[m].section = f[i].section

\* The files of up to MaxEntries lines.
FocusFiles ==
    {f \in UNION {[1..n -> FocusLines] : n \in 0..MaxEntries} : WellFormed(f)}

Files == SingleOptionFiles \cup FocusFiles

\* What reading the file gives: its text, or the exception of open() or of the tokenizer.
ReadOutcomes == {"ok", "ParsingError", "OSError"}

\* The override arguments of get_value (NoneV: none given).
Overrides == {NoneV, BoolV(FALSE), StrV("override")}

\* The show_default arguments of get_help_string.
ShowDefaults == {NoneV, BoolV(TRUE), BoolV(FALSE)}

(***************************************************************************)
(* State.                                                                  *)
(***************************************************************************)
VARIABLES
    path,             \* the path argument of the constructor, "" when none is given
    throw_exception,  \* the throw_exception argument of the constructor
    exists,           \* os.path.exists of the location the load consults
    read,             \* what reading that file gives, one of ReadOutcomes
    file,             \* the lines of that file
    config,           \* ConfigRegistry._config
    init_log,         \* ConfigRegistry._init_log
    initialized,      \* ConfigRegistry._initialized
    pc,               \* "unloaded", then "ready" (constructed) or "raised"
    raised,           \* the exception that left the constructor
    log_read,         \* whether get_init_log has been called on the registry
    ret               \* the last accessor call and what it returned

inputs == <<path, throw_exception, exists, read, file>>
registry == <<config, init_log, initialized>>
vars == <<path, throw_exception, exists, read, file, config, init_log, initialized,
          pc, raised, log_read, ret>>

NoException == [type |-> "", init_log |-> <<>>, reason |-> ""]
NoCall == [op |-> "", val |-> NoneV]

\* The options of the schema that the file sets.
FileKeys == {<<file[i].section, file[i].option>> : i \in 1..Len(file)} \cap SchemaKeys

\* The options a caller asks about: those the file names, and one more.
QueryKeys == FileKeys \cup {<<"detect-adaptive", "kernel-size">>}

Init ==
    /\ path \in {"", CustomPath}
    /\ throw_exception \in BOOLEAN
    /\ exists \in BOOLEAN
    /\ read \in ReadOutcomes
    /\ file \in Files
    \* a file that is absent or unreadable has no text
    /\ (~exists \/ read # "ok") => file = <<>>
    /\ ~exists => read = "ok"
    /\ config = <<>>
    /\ init_log = <<>>
    /\ initialized = FALSE
    /\ pc = "unloaded"
    /\ raised = NoException
    /\ log_read = FALSE
    /\ ret = NoCall

\* ConfigRegistry.__init__(path, throw_exception)
Construct ==
    /\ pc = "unloaded"
    /\ \E r \in {load_from_disk(path, exists, read, file)} :
          IF r.exc = ""
          THEN /\ config' = r.config
               /\ init_log' = r.log
               /\ initialized' = TRUE
               /\ pc' = "ready"
               /\ raised' = NoException
          ELSE IF r.exc = "ConfigLoadFailure" /\ ~throw_exception
          THEN /\ config' = r.config
               /\ init_log' = RetainedLog(r)
               /\ initialized' = FALSE
               /\ pc' = "ready"
               /\ raised' = NoException
          ELSE /\ config' = r.config
               /\ init_log' = r.log
               /\ initialized' = FALSE
               /\ pc' = "raised"
               /\ raised' = [type |-> r.exc,
                             init_log |-> IF r.exc = "ConfigLoadFailure" THEN r.log ELSE <<>>,
                             reason |-> r.reason]
    /\ UNCHANGED <<inputs, log_read, ret>>

\* get_init_log handing back the log without emptying it.
GetInitLog_NoReset ==
    /\ pc = "ready"
    /\ ret' = [op |-> "get_init_log", val |-> init_log]
    /\ log_read' = TRUE
    /\ UNCHANGED <<inputs, registry, pc, raised>>

\* ConfigRegistry.get_init_log()
GetInitLog ==
    /\ pc = "ready"
    /\ ret' = [op |-> "get_init_log", val |-> init_log]
    /\ init_log' = <<>>
    /\ log_read' = TRUE
    /\ UNCHANGED <<inputs, config, initialized, pc, raised>>

\* ConfigRegistry.is_default(command, option)
IsDefault ==
    /\ pc = "ready"
    /\ \E key \in QueryKeys :
          ret' = [op |-> "is_default", val |-> BoolV(is_default(config, key[1], key[2]))]
    /\ UNCHANGED <<inputs, registry, pc, raised, log_read>>

\* ConfigRegistry.get_value(command, option, override)
GetValue ==
    /\ pc = "ready"
    /\ \E key \in QueryKeys, override \in Overrides :
          ret' = [op |-> "get_value", val |-> get_value(config, key[1], key[2], override)]
    /\ UNCHANGED <<inputs, registry, pc, raised, log_read>>

\* ConfigRegistry.get_help_string(command, option, show_default)
GetHelpString ==
    /\ pc = "ready"
    /\ \E key \in QueryKeys, show_default \in ShowDefaults :
          ret' = [op |-> "get_help_string",
                  val |-> StrV(get_help_string(config, key[1], key[2], show_default))]
    /\ UNCHANGED <<inputs, registry, pc, raised, log_read>>

\* ConfigRegistry.config_dict
ConfigDict ==
    /\ pc = "ready"
    /\ ret' = [op |-> "config_dict", val |-> config]
    /\ UNCHANGED <<inputs, registry, pc, raised, log_read>>

\* ConfigRegistry.initialized
Initialized ==
    /\ pc = "ready"
    /\ ret' = [op |-> "initialized", val |-> BoolV(initialized)]
    /\ UNCHANGED <<inputs, registry, pc, raised, log_read>>

Next ==
    \/ Construct
    \/ GetInitLog
    \/ IsDefault
    \/ GetValue
    \/ GetHelpString
    \/ ConfigDict
    \/ Initialized

Spec == Init /\ [][Next]_vars

(***************************************************************************)
(* Vocabulary of the properties.                                           *)
(***************************************************************************)
\* The constructor has run and the load read and tokenized a file.
FileLoaded == pc # "unloaded" /\ exists /\ read = "ok"

\* The log of the load: the registry's, or the one the ConfigLoadFailure carries.
TheLog == IF pc = "raised" THEN raised.init_log ELSE init_log

\* The log is still as the load left it.
LogUnread == ~log_read

\* The load ended in the load-failure condition, thrown or retained.
LoadFailed ==
    \/ pc = "raised" /\ raised.type = "ConfigLoadFailure" /\ throw_exception
    \/ pc = "ready" /\ ~initialized /\ ~throw_exception

\* The messages of the error-severity entries of a log, in order.
ErrorMessages(log) == SelectSeq(log, LAMBDA e : e[1] = ERROR)

\* The number of error-severity entries of a log.
ErrorCount(log) == Cardinality({i \in 1..Len(log) : log[i][1] = ERROR})

\* How many entries of a log are the error message msg.
Occurrences(log, msg) == Cardinality({i \in 1..Len(log) : log[i] = <<ERROR, msg>>})

\* The sections of the file the schema does not have.
UnknownSections ==
    {file[i].section : i \in 1..Len(file)} \ {CONFIG_MAP[i].name : i \in 1..Len(CONFIG_MAP)}

\* The options of the file, in sections of the schema, that the schema does not have.
UnknownOptions ==
    {<<file[i].section, file[i].option>> : i \in 1..Len(file)}
        \ (SchemaKeys \cup {<<file[i].section, file[i].option>> :
                i \in {j \in 1..Len(file) :
                        file[j].option = "" \/ file[j].section \in UnknownSections}})

StructureOk == UnknownSections = {} /\ UnknownOptions = {}

\* The value the file gives to the option key.
FileValue(key) ==
    (CHOOSE l \in {file[i] : i \in 1..Len(file)} :
        l.section = key[1] /\ l.option = key[2]).value

\* The value parser's outcome for the option key alone.
OutcomeOf(key) == ParseTyped(key[1], key[2], FileValue(key), Lookup(CONFIG_MAP, key[1], key[2]))

\* The options the file sets to a value their type does not accept.
InvalidKeys == {k \in FileKeys : ~OutcomeOf(k).store}

\* The options the file sets whose default is an enumerated label.
EnumKeys == {k \in FileKeys : IsEnum(Lookup(CONFIG_MAP, k[1], k[2]))}

\* The <<section, option>> entries of a resolved map.
Entries(map) ==
    UNION {{<<map[i].name, map[i].options[j][1]>> : j \in 1..Len(map[i].options)} :
            i \in 1..Len(map)}

(***************************************************************************)
(* Properties.                                                             *)
(***************************************************************************)
\* C1: no partial adoption on failure.  After a lenient construction whose load
\* recorded a structural or a value error, the resolved map holds no option
\* entry: every schema option is_default and get_value gives its schema default.
C1_NoPartialAdoption ==
    (/\ pc = "ready" /\ ~throw_exception /\ FileLoaded
     /\ (~StructureOk \/ InvalidKeys # {}))
        => /\ Entries(config) = {}
           /\ \A key \in SchemaKeys :
                 /\ is_default(config, key[1], key[2])
                 /\ get_value(config, key[1], key[2], NoneV)
                        = Unwrapped(Lookup(CONFIG_MAP, key[1], key[2]))

\* The same, for the loads that a structural error fails: the value parser did
\* not run and nothing is adopted.
C1_StructuralFailureAdoptsNothing ==
    (pc = "ready" /\ ~throw_exception /\ FileLoaded /\ ~StructureOk)
        => /\ config = <<>>
           /\ \A key \in SchemaKeys : is_default(config, key[1], key[2])

\* C2: the lenient load state machine.  With throw_exception = False the
\* constructor returns whatever fails in the load; a failed load leaves
\* initialized False and an error entry in the log; initialized is True only
\* when the load recorded no error.
LoadFailure ==
    \/ path # "" /\ ~exists
    \/ exists /\ read # "ok"
    \/ exists /\ read = "ok" /\ (~StructureOk \/ InvalidKeys # {})

C2_LenientLoad ==
    (pc # "unloaded" /\ ~throw_exception)
        => /\ pc = "ready"
           /\ LoadFailure => (~initialized /\ (LogUnread => ErrorCount(init_log) >= 1))
           /\ initialized => ~LoadFailure

\* C2 for the loads in which no enumerated option has an invalid label.
C2_LenientLoadWithoutEnum ==
    (pc # "unloaded" /\ ~throw_exception /\ InvalidKeys \cap EnumKeys = {})
        => /\ pc = "ready"
           /\ LoadFailure => (~initialized /\ (LogUnread => ErrorCount(init_log) >= 1))
           /\ initialized => ~LoadFailure

\* C3: error accumulation.  A file without structural error in which N >= 1
\* options have invalid values leaves exactly N error entries in the log of the
\* load, one per offending option.
C3_ErrorAccumulation ==
    (FileLoaded /\ StructureOk /\ InvalidKeys # {} /\ LogUnread)
        => /\ LoadFailed
           /\ ErrorCount(TheLog) = Cardinality(InvalidKeys)

\* The same for the files whose enumerated-label options all name a label.
C3_ErrorAccumulationWithoutEnum ==
    (/\ FileLoaded /\ StructureOk /\ InvalidKeys # {} /\ LogUnread
     /\ InvalidKeys \cap EnumKeys = {})
        => /\ LoadFailed
           /\ ErrorCount(TheLog) = Cardinality(InvalidKeys)

\* C4: an invalid enumerated label is an accumulated value error.  When the
\* file gives an enumerated-label option a text that is no label, the load ends
\* in the load-failure condition and nothing else, the log holds one "Must be
\* one of" error for that option, and the map has no entry for it.
C4_InvalidEnumRecorded ==
    \A key \in EnumKeys \cap InvalidKeys :
        (FileLoaded /\ StructureOk)
            => /\ LoadFailed
               /\ LogUnread =>
                    Occurrences(TheLog, MustBeOneOf(key[1], key[2], FileValue(key))) = 1
               /\ key \notin Entries(config)

\* C5: two-pass ordering.  When the structural validator reports an error for
\* the loaded file, the value parser is not run: the log holds the structural
\* errors and no other error, the resolved map stays empty and the load failed.
C5_TwoPassOrdering ==
    (FileLoaded /\ ~StructureOk)
        => /\ LoadFailed
           /\ ~initialized
           /\ config = <<>>
           /\ LogUnread =>
                /\ ErrorCount(TheLog) = Cardinality(UnknownSections) + Cardinality(UnknownOptions)
                /\ \A i \in 1..Len(TheLog) :
                      TheLog[i][1] = ERROR => StartsWith(TheLog[i][2], "Unsupported config ")

\* A load with a structural error and an invalid value of a known option.
C5_Witness ==
    pc = "ready" /\ FileLoaded /\ ~StructureOk /\ InvalidKeys # {} /\ LogUnread

\* C6: structural validation reports per item.  For every loaded file each
\* unknown section yields exactly one "unsupported section" error and none of
\* its options is reported, each unknown option of a known section yields exactly
\* one "unsupported option" error, and there is no other error.
C6_StructuralErrorsPerItem ==
    FileLoaded =>
        /\ Len(validate_structure(Tokenize(file, <<>>)))
                = Cardinality(UnknownSections) + Cardinality(UnknownOptions)
        /\ \A section \in UnknownSections :
              /\ Occurrences(AsErrors(validate_structure(Tokenize(file, <<>>))),
                             "Unsupported config section: [" \o section \o "]") = 1
              /\ \A i \in 1..Len(file) :
                    Occurrences(AsErrors(validate_structure(Tokenize(file, <<>>))),
                                "Unsupported config option in [" \o section \o "]: "
                                    \o file[i].option) = 0
        /\ \A key \in UnknownOptions :
              Occurrences(AsErrors(validate_structure(Tokenize(file, <<>>))),
                          "Unsupported config option in [" \o key[1] \o "]: " \o key[2]) = 1
        /\ (LogUnread /\ ~StructureOk) =>
              ErrorMessages(TheLog) = AsErrors(validate_structure(Tokenize(file, <<>>)))

\* A loaded file with an option under an unknown section and an unknown option
\* in a known section.
C6_Witness ==
    /\ pc = "ready" /\ FileLoaded
    /\ UnknownOptions # {}
    /\ \E i \in 1..Len(file) : file[i].section \in UnknownSections /\ file[i].option # ""

\* The payload of a value, written out: a ValidatedValue's payload has the
\* payload's type and no bounds; any other value is its own payload.
ExpectedPayload(v) == IF v.pk # "" THEN Plain(v.pk, v.i, v.s, v.w) ELSE v

\* The three tiers of get_value for the option key of the registry.
GetValueTiers(key) ==
    /\ \A override \in Overrides \ {NoneV} :
          get_value(config, key[1], key[2], override) = override
    /\ ~IsValidatedValue(get_value(config, key[1], key[2], NoneV))
    /\ HasOption(config, key[1], key[2]) =>
          get_value(config, key[1], key[2], NoneV)
              = ExpectedPayload(Lookup(config, key[1], key[2]))
    /\ ~HasOption(config, key[1], key[2]) =>
          get_value(config, key[1], key[2], NoneV)
              = ExpectedPayload(Lookup(CONFIG_MAP, key[1], key[2]))
    /\ (initialized /\ key \in FileKeys) =>
          get_value(config, key[1], key[2], NoneV) = ExpectedPayload(OutcomeOf(key).val)

\* C7: get_value resolves in three tiers.  A given override is returned
\* unchanged; without one the resolved map's entry is returned when the map has
\* the option (after a successful load: when the file set it, as parsed from the
\* file), otherwise the schema default; and the result is the payload, never a
\* ValidatedValue.  The resolved map is fixed by the constructor, so every
\* schema option is asked of the registry as constructed, and the options the
\* callers ask about are asked again after every call.
C7_GetValueTiers ==
    pc = "ready" =>
        /\ ret = NoCall => \A key \in SchemaKeys : GetValueTiers(key)
        /\ \A key \in QueryKeys : GetValueTiers(key)
        /\ (ret.op = "get_value" /\ ret.val \notin Overrides) => ~IsValidatedValue(ret.val)

\* get_value returned the payload of a ValidatedValue the file set.
C7_Witness ==
    /\ pc = "ready" /\ initialized
    /\ \E key \in FileKeys :
          /\ IsValidatedValue(Lookup(config, key[1], key[2]))
          /\ ret = [op |-> "get_value", val |-> ExpectedPayload(Lookup(config, key[1], key[2]))]

\* C8: after a successful load of a file, is_default is false exactly for the
\* options the file set, and the resolved map has exactly those entries.  The
\* resolved map is fixed by the constructor, so every schema option is asked of
\* the registry as constructed, and the options the callers ask about are asked
\* again after every call.
C8_IsDefaultIffUnset ==
    (pc = "ready" /\ initialized /\ FileLoaded)
        => /\ ret = NoCall =>
                 \A key \in SchemaKeys :
                     is_default(config, key[1], key[2]) = (key \notin FileKeys)
           /\ \A key \in QueryKeys :
                 is_default(config, key[1], key[2]) = (key \notin FileKeys)
           /\ Entries(config) = FileKeys

\* is_default was asked after a successful load of a file that sets one option
\* of a section and leaves another option of that section unset.
C8_Witness ==
    /\ pc = "ready" /\ initialized /\ FileLoaded
    /\ ret.op = "is_default"
    /\ \E key \in FileKeys, other \in SchemaKeys \ FileKeys :
          /\ key[1] = other[1]
          /\ ~is_default(config, key[1], key[2])
          /\ is_default(config, other[1], other[2])

\* The log the constructor leaves in the registry.
ConstructedLog == RetainedLog(load_from_disk(path, exists, read, file))

C10_MissingFile ==
    (pc # "unloaded" /\ ~exists)
        => /\ path = "" =>
                /\ pc = "ready" /\ initialized /\ config = <<>>
                /\ LogUnread => (Len(init_log) = 1 /\ init_log[1][1] = DEBUG)
           /\ path # "" =>
                /\ LoadFailed /\ ~initialized
                /\ LogUnread => Occurrences(TheLog, "File not found: " \o path) = 1

\* Constructed with no path, no default file, and throw_exception set.
C10_Witness ==
    pc = "ready" /\ path = "" /\ ~exists /\ throw_exception /\ initialized /\ LogUnread

\* The Range options the file sets.
RangeKeys == {k \in FileKeys : Lookup(CONFIG_MAP, k[1], k[2]).k = "RangeValue"}

\* The number a text is read as for a Range default: an integer when the
\* default's value is an integer, a floating-point number otherwise.
RangeNumber(text, default) ==
    IF default.pk = "int" THEN ParseInt(text) ELSE ParseFloat(text)

\* min_val <= n <= max_val for the number n of the default's subtype.
WithinBounds(n, default) ==
    /\ Thousandths(default.lo[1], default.lo[2]) <= Thousandths(default.pk, n)
    /\ Thousandths(default.pk, n) <= Thousandths(default.hi[1], default.hi[2])

BoundsMessage(default) ==
    "Value must be between " \o NumStr(default.lo[1], default.lo[2])
        \o " and " \o NumStr(default.hi[1], default.hi[2]) \o "."

\* from_config on text succeeds exactly when the text is a number of the
\* default's subtype within the bounds; the value then is that number with the
\* default's bounds, and the failure otherwise names the bounds.
RangeContract(text, default) ==
    /\ (from_config(text, default).exc = "")
          = (RangeNumber(text, default).exc = ""
                /\ WithinBounds(RangeNumber(text, default).n, default))
    /\ from_config(text, default).exc = "" =>
          from_config(text, default).val
              = [default EXCEPT !.i = RangeNumber(text, default).n]
    /\ from_config(text, default).exc # "" =>
          from_config(text, default) = Raised("OptionParseFailure", BoundsMessage(default))

\* The numbers min_val and max_val themselves, as str() prints them, are accepted.
BoundsAccepted(default) ==
    /\ from_config(NumStr(default.lo[1], default.lo[2]), default).exc = ""
    /\ from_config(NumStr(default.hi[1], default.hi[2]), default).exc = ""

\* Every Range value of the resolved map lies within its schema default's bounds.
StoredWithinBounds ==
    \A key \in Entries(config) \cap SchemaKeys :
        Lookup(config, key[1], key[2]).k = "RangeValue" =>
            /\ Lookup(config, key[1], key[2]).pk = Lookup(CONFIG_MAP, key[1], key[2]).pk
            /\ WithinBounds(Lookup(config, key[1], key[2]).i,
                            Lookup(CONFIG_MAP, key[1], key[2]))

\* C11: Range bounds are inclusive and the numeric subtype comes from the
\* default.  For every Range option a loaded file sets, from_config on the
\* file's text succeeds exactly when the number read (as an integer for an
\* integer default, as a float otherwise) lies within [min_val, max_val], a
\* failure names the bounds, min_val and max_val themselves are accepted, and
\* every Range value in the resolved map lies within its default's bounds.
C11_RangeBounds ==
    pc # "unloaded" =>
        /\ \A key \in RangeKeys :
              /\ RangeContract(FileValue(key), Lookup(CONFIG_MAP, key[1], key[2]))
              /\ BoundsAccepted(Lookup(CONFIG_MAP, key[1], key[2]))
        /\ StoredWithinBounds

\* C11 with the bounds themselves tried only on the options whose bounds have
\* the subtype of the default's value.
C11_RangeBoundsOfSubtype ==
    pc # "unloaded" =>
        /\ \A key \in RangeKeys :
              /\ RangeContract(FileValue(key), Lookup(CONFIG_MAP, key[1], key[2]))
              /\ (/\ Lookup(CONFIG_MAP, key[1], key[2]).lo[1] = Lookup(CONFIG_MAP, key[1], key[2]).pk
                  /\ Lookup(CONFIG_MAP, key[1], key[2]).hi[1] = Lookup(CONFIG_MAP, key[1], key[2]).pk)
                    => BoundsAccepted(Lookup(CONFIG_MAP, key[1], key[2]))
        /\ StoredWithinBounds

\* The (section, option) keys of the choice map.
ChoiceKeys == Entries(CHOICE_MAP)

\* The file's text for key as the value parser compares it with a choice list.
Normalised(key) == lower(strip(replace(FileValue(key), "\n", " ")))

\* The file's value for key is none of the choices declared for key.
OutsideChoices(key) == ~Contains(Lookup(CHOICE_MAP, key[1], key[2]), Normalised(key))

\* The value parser rejected the file's value for key with the choice error.
RejectedByChoice(key) ==
    /\ LoadFailed
    /\ key \notin Entries(config)
    /\ LogUnread =>
          Occurrences(TheLog, MustBeOneOf(key[1], key[2], FileValue(key))) = 1

\* C12: every choice constraint is attached to a schema option.  Each key of
\* the choice map is a schema option whose default is a string or an enumerated
\* label, and for a loaded file without structural error a value outside the
\* choice list of its option (compared case-insensitively) is rejected with a
\* "Must be one of" error.
C12_ChoiceConstraints ==
    (FileLoaded /\ StructureOk) =>
        /\ \A key \in ChoiceKeys :
              /\ key \in SchemaKeys
              /\ \/ Lookup(CONFIG_MAP, key[1], key[2]).k = "str"
                 \/ IsEnum(Lookup(CONFIG_MAP, key[1], key[2]))
        /\ \A key \in FileKeys \cap ChoiceKeys :
              OutsideChoices(key) => RejectedByChoice(key)

\* C12 for the choice lists that are keyed by a schema option with a string
\* default: a value outside the list is rejected, a value inside it (in any
\* case) is not; for the loads in which no enumerated option has an invalid
\* label.
C12_StringChoicesEnforced ==
    (FileLoaded /\ StructureOk /\ InvalidKeys \cap EnumKeys = {}) =>
        \A key \in FileKeys \cap ChoiceKeys :
            Lookup(CONFIG_MAP, key[1], key[2]).k = "str" =>
                /\ OutsideChoices(key) => RejectedByChoice(key)
                /\ ~OutsideChoices(key) =>
                      (LogUnread =>
                          Occurrences(TheLog, MustBeOneOf(key[1], key[2], FileValue(key))) = 0)

\* The choice list keyed "threading_mode" restricts no option: any text for
\* backend-pyav/threading-mode is stored.
C12_ThreadingModeUnrestricted ==
    (/\ pc = "ready" /\ FileLoaded
     /\ FileKeys = {<<"backend-pyav", "threading-mode">>})
        => /\ initialized
           /\ <<"backend-pyav", "threading-mode">> \notin ChoiceKeys
           /\ Lookup(config, "backend-pyav", "threading-mode")
                 = StrV(strip(replace(FileValue(<<"backend-pyav", "threading-mode">>), "\n", " ")))

\* The KernelSize options the file sets.
KernelKeys == {k \in FileKeys : Lookup(CONFIG_MAP, k[1], k[2]).k = "KernelSizeValue"}

KernelSizeMessage ==
    "Value must be an odd integer greater than 1, or set to -1 for auto kernel size."

\* What from_config is to give for the outcome num of reading the text as an
\* integer: "auto" (payload None) for -1, the integer itself when it is odd and
\* greater than 1, OptionParseFailure otherwise.
KernelSizeExpected(num) ==
    IF num.exc # "" THEN Raised("OptionParseFailure", KernelSizeMessage)
    ELSE IF num.n = -1 THEN Returned(Validated("KernelSizeValue", "None", 0, "", <<>>))
    ELSE IF num.n > 1 /\ num.n % 2 = 1
    THEN Returned(Validated("KernelSizeValue", "int", num.n, "", <<>>))
    ELSE Raised("OptionParseFailure", KernelSizeMessage)

\* C13: KernelSizeValue accepts exactly -1 and the odd integers greater than 1.
\* For every KernelSize option a loaded file sets, from_config on the file's
\* text gives payload None for -1, the integer itself when it is odd and
\* greater than 1, and raises OptionParseFailure for every other integer and
\* for text that is no integer.
C13_KernelSize ==
    pc # "unloaded" =>
        \A key \in KernelKeys :
            from_config(FileValue(key), Lookup(CONFIG_MAP, key[1], key[2]))
                = KernelSizeExpected(ParseInt(FileValue(key)))

\* C13 for every text but that of the integer 1.
C13_KernelSizeExceptOne ==
    pc # "unloaded" =>
        \A key \in KernelKeys :
            ParseInt(FileValue(key)) # [exc |-> "", n |-> 1] =>
                from_config(FileValue(key), Lookup(CONFIG_MAP, key[1], key[2]))
                    = KernelSizeExpected(ParseInt(FileValue(key)))

\* The integer 1 is accepted: the load succeeds and get_value gives 1.
C13_OneAccepted ==
    (/\ pc = "ready" /\ FileLoaded /\ Len(file) = 1
     /\ KernelKeys # {}
     /\ ParseInt(file[1].value) = [exc |-> "", n |-> 1])
        => /\ initialized
           /\ \A key \in KernelKeys : get_value(config, key[1], key[2], NoneV) = IntV(1)

====
